---- MODULE Spec2Model ----
(***************************************************************************)
(* Eigenvalue analysis tools of welib (welib/system/eva.py):               *)
(*   polyeig, eig, eigA, eigMCK.                                           *)
(*                                                                         *)
(* Numbers.  A complex number is a pair <<re, im>> of integers (a Gaussian *)
(* integer), so every sum, product and determinant below is exact.  A real *)
(* quantity the code obtains with a square root or a division is kept as a *)
(* record that states it exactly (see Surd below); not-a-number and the    *)
(* infinite eigenvalue are explicit values.                                *)
(*                                                                         *)
(* scipy.linalg.eig is a library: it is modelled by its contract.  For a   *)
(* regular pencil (C, D) of size N it returns N eigenvalues, the roots of  *)
(* det(C - e D) counted with multiplicity (and the infinite eigenvalue for *)
(* each missing degree), in an order the caller cannot rely on, and for    *)
(* each a non-zero vector z with C z = e D z (D z = 0 for the infinite     *)
(* eigenvalue), at a scale and phase the caller cannot rely on.            *)
(***************************************************************************)
EXTENDS Integers, Sequences, FiniteSets, TLC

\* ------------------------------------------------------------------ bounds
\* Eigenvalue candidates of the solver model: re, im in -EigRange..EigRange,
\* and the real numbers -RealRange..RealRange.
EigRange == 2
RealRange == 6
\* Entries of the 1 x 1 coefficient matrices given to polyeig: -MaxEntry..MaxEntry.
MaxEntry == 2
\* polyeig is given 0..MaxLen matrices.
MaxLen == 3
\* Mass, damping and stiffness of the one-degree-of-freedom systems: 0..Max.
MaxMass == 2
MaxDamp == 4
MaxStiff == 5
\* eigA is given nq and nq1 in -1..MaxArg, or None.
MaxArg == 2
\* State matrices hold up to MaxFirst first-order states.
MaxFirst == 1

\* --------------------------------------------------------- complex numbers
Zero == <<0, 0>>
One == <<1, 0>>
Re(z) == z[1]
Im(z) == z[2]
CAdd(a, b) == <<a[1] + b[1], a[2] + b[2]>>
CSub(a, b) == <<a[1] - b[1], a[2] - b[2]>>
CNeg(a) == <<-a[1], -a[2]>>
CMul(a, b) == <<a[1] * b[1] - a[2] * b[2], a[1] * b[2] + a[2] * b[1]>>
CReal(x) == <<x, 0>>
\* |z|^2
Abs2(z) == z[1] * z[1] + z[2] * z[2]

RECURSIVE CPow(_, _)
CPow(z, k) == IF k = 0 THEN One ELSE CMul(z, CPow(z, k - 1))

RECURSIVE CSum(_)
CSum(s) == IF Len(s) = 0 THEN Zero ELSE CAdd(Head(s), CSum(Tail(s)))

RECURSIVE CProd(_)
CProd(s) == IF Len(s) = 0 THEN One ELSE CMul(Head(s), CProd(Tail(s)))

\* ------------------------------------------------------ vectors, matrices
\* A matrix is a sequence of rows, a row a sequence of complex numbers.
NRows(M) == Len(M)
NCols(M) == IF Len(M) = 0 THEN 0 ELSE Len(M[1])
Shape(M) == <<NRows(M), NCols(M)>>
\* A sequence built by a function constructor, with its elements computed once.
Vec(f) == f \o <<>>
ZeroVec(n) == Vec([i \in 1..n |-> Zero])
ZeroMat(r, c) == Vec([i \in 1..r |-> ZeroVec(c)])
Eye(n) == Vec([i \in 1..n |-> Vec([j \in 1..n |-> IF i = j THEN One ELSE Zero])])
MatNeg(M) == Vec([i \in 1..NRows(M) |-> Vec([j \in 1..NCols(M) |-> CNeg(M[i][j])])])
MatScale(c, M) == Vec([i \in 1..NRows(M) |-> Vec([j \in 1..NCols(M) |-> CMul(c, M[i][j])])])
MatSub(A, B) == Vec([i \in 1..NRows(A) |-> Vec([j \in 1..NCols(A) |-> CSub(A[i][j], B[i][j])])])
MatVec(M, x) == Vec([i \in 1..NRows(M) |-> CSum([j \in 1..NCols(M) |-> CMul(M[i][j], x[j])])])
VecScale(c, x) == Vec([i \in 1..Len(x) |-> CMul(c, x[i])])
\* x^T y, without conjugation (numpy's dot)
Dot(x, y) == CSum([i \in 1..Len(x) |-> CMul(x[i], y[i])])
Diag(d) == Vec([i \in 1..Len(d) |-> Vec([j \in 1..Len(d) |-> IF i = j THEN d[i] ELSE Zero])])
\* numpy's horizontal and vertical concatenation of blocks
HCat(A, B) == Vec([i \in 1..NRows(A) |-> A[i] \o B[i]])
VCat(A, B) == A \o B

Minor(M, i, j) ==
  Vec([r \in 1..(Len(M) - 1) |->
     Vec([c \in 1..(Len(M) - 1) |->
        M[IF r < i THEN r ELSE r + 1][IF c < j THEN c ELSE c + 1]])])

Sign(k) == IF k % 2 = 0 THEN One ELSE <<-1, 0>>

RECURSIVE Det(_)
Det(M) ==
  IF Len(M) = 0 THEN One
  ELSE IF Len(M) = 1 THEN M[1][1]
  ELSE IF Len(M) = 2 THEN CSub(CMul(M[1][1], M[2][2]), CMul(M[1][2], M[2][1]))
  ELSE CSum([j \in 1..Len(M) |->
               IF M[1][j] = Zero THEN Zero
               ELSE CMul(CMul(Sign(1 + j), M[1][j]), Det(Minor(M, 1, j)))])

\* Column k of the adjugate of M: M * AdjCol(M, k) = det(M) * e_k.
AdjCol(M, k) == Vec([i \in 1..Len(M) |-> CMul(Sign(i + k), Det(Minor(M, k, i)))])

\* ------------------------------------------------- scipy.linalg.eig (contract)
\* An eigenvalue as the solver reports it: finite, or infinite (inf + 0j).
FinE(z) == [t |-> "fin", v |-> z]
InfE == [t |-> "inf", v |-> Zero]
IsFinite(e) == e.t = "fin"

EigCand ==
  {<<a, b>> : a \in -EigRange..EigRange, b \in -EigRange..EigRange}
    \cup {<<a, 0>> : a \in -RealRange..RealRange}

\* C - x D
Pencil(C, D, x) == MatSub(C, MatScale(x, D))
CharPoly(C, D, x) == Det(Pencil(C, D, x))
\* det(C - x D) at the N + 1 points x = 0..N, which determine the polynomial.
PolyVals(C, D) == Vec([k \in 1..(Len(C) + 1) |-> CharPoly(C, D, CReal(k - 1))])
FiniteRoots(C, D) == {e \in EigCand : CharPoly(C, D, e) = Zero}

\* prod over the roots e of (x - e)^m[e]
RECURSIVE RootProd(_, _, _)
RootProd(roots, m, x) ==
  IF roots = {} THEN One
  ELSE LET e == CHOOSE r \in roots : TRUE
       IN  CMul(CPow(CSub(x, e), m[e]), RootProd(roots \ {e}, m, x))

RECURSIVE MultSum(_, _)
MultSum(roots, m) ==
  IF roots = {} THEN 0
  ELSE LET e == CHOOSE r \in roots : TRUE IN m[e] + MultSum(roots \ {e}, m)

\* The multiplicities of the roots: det(C - x D) = c * prod (x - e)^m[e], checked
\* at the N + 1 points (k0 is a point where the polynomial is not zero).
Mults(roots, pv, k0) ==
  {m \in [roots -> 1..(Len(pv) - 1)] :
     /\ MultSum(roots, m) <= Len(pv) - 1
     /\ \A k \in 1..Len(pv) :
          CMul(pv[k], RootProd(roots, m, CReal(k0 - 1)))
            = CMul(pv[k0], RootProd(roots, m, CReal(k - 1)))}

\* The spectrum in one order: each root as often as its multiplicity, and the
\* infinite eigenvalue for every missing degree.
RECURSIVE RootSeq(_, _)
RootSeq(roots, m) ==
  IF roots = {} THEN <<>>
  ELSE LET e == CHOOSE r \in roots : TRUE
       IN  [j \in 1..m[e] |-> FinE(e)] \o RootSeq(roots \ {e}, m)

SpectrumSeq(roots, m, N) ==
  LET fin == RootSeq(roots, m) IN fin \o [j \in 1..(N - Len(fin)) |-> InfE]

Perms(N) == {p \in [1..N -> 1..N] : \A i, j \in 1..N : p[i] = p[j] => i = j}

UnitVec(N, k) == Vec([i \in 1..N |-> IF i = k THEN One ELSE Zero])
IsNullVec(Nm, z) == z # ZeroVec(Len(z)) /\ MatVec(Nm, z) = ZeroVec(Len(Nm))
\* Candidate null vectors of a singular matrix: the columns of its adjugate
\* (any scale and phase) and the unit vectors, those that are null vectors kept.
NullVecs(Nm) ==
  LET N == Len(Nm)
      cand == [k \in 1..(2 * N) |-> IF k <= N THEN AdjCol(Nm, k) ELSE UnitVec(N, k - N)]
      Keep(z) == IsNullVec(Nm, z)
  IN  SelectSeq(cand, Keep)

\* The matrix whose null space holds the eigenvectors of eigenvalue e.
EigSpaceMat(C, D, e) == IF IsFinite(e) THEN Pencil(C, D, e.v) ELSE D

\* The solver may return any of an eigenvalue's candidate vectors.
Variants == {0, 1}
\* The orders the solver returns the spectrum in: the rotations of one order
\* and of its reverse (every order, for up to three eigenvalues).
Orders(N) ==
  {Vec([j \in 1..N |-> ((j - 1 + r) % N) + 1]) : r \in 0..(N - 1)}
    \cup {Vec([j \in 1..N |-> ((r + N - j) % N) + 1]) : r \in 0..(N - 1)}

\* The orders of the spectrum `base`, whose j-th eigenvalue has the candidate
\* eigenvectors nv[j].
Arrange(base, nv) ==
  IF \E j \in 1..Len(base) : Len(nv[j]) = 0 THEN {}
  ELSE {[e |-> Vec([j \in 1..Len(base) |-> base[p[j]]]),
         X |-> Vec([j \in 1..Len(base) |->
                      nv[p[j]][((k + j) % Len(nv[p[j]])) + 1]])] :
          p \in Orders(Len(base)), k \in Variants}

SolveWith(C, D, pv, roots) ==
  IF \A k \in 1..Len(pv) : pv[k] = Zero THEN {}
  ELSE UNION {Arrange(base, Vec([j \in 1..Len(C) |-> NullVecs(EigSpaceMat(C, D, base[j]))])) :
                base \in {SpectrumSeq(roots, m, Len(C)) :
                            m \in Mults(roots, pv, CHOOSE k \in 1..Len(pv) : pv[k] # Zero)}}

\* linalg.eig(C, D): the results [e |-> eigenvalues, X |-> eigenvector columns] the
\* solver may return.  Empty when the model cannot solve the pencil: a singular
\* pencil, an eigenvalue outside the candidates, no candidate eigenvector.
LinalgEig(C, D) ==
  UNION {SolveWith(C, D, pv, roots) : pv \in {PolyVals(C, D)}, roots \in {FiniteRoots(C, D)}}

\* ------------------------------------------------------------ real numbers
\* A real number the code computes: s * sqrt(p / q) * (2 pi)^k with s its sign,
\* p >= 0, q > 0; or not-a-number; or an infinity of sign s.  A rational a / b
\* is the case p = a^2, q = b^2.
RECURSIVE GCD(_, _)
GCD(a, b) == IF b = 0 THEN a ELSE GCD(b, a % b)
\* The fraction p / q is kept in lowest terms.
RNum(s, p, q, k) ==
  IF p = 0 THEN [t |-> "num", s |-> 0, p |-> 0, q |-> 1, k |-> k]
  ELSE [t |-> "num", s |-> s, p |-> p \div GCD(p, q), q |-> q \div GCD(p, q), k |-> k]
RNaN == [t |-> "nan", s |-> 0, p |-> 0, q |-> 1, k |-> 0]
RInf(s) == [t |-> "inf", s |-> s, p |-> 0, q |-> 1, k |-> 0]
RZero == RNum(0, 0, 1, 0)
Sgn(a) == IF a > 0 THEN 1 ELSE IF a < 0 THEN -1 ELSE 0
RInt(a) == RNum(Sgn(a), a * a, 1, 0)
RRat(a, b) == RNum(Sgn(a) * Sgn(b), a * a, b * b, 0)
\* sqrt(a) of an integer a >= 0
RSqrtInt(a) == RNum(1, a, 1, 0)
IsNum(x) == x.t = "num"
IsNaN(x) == x.t = "nan"
IsZero(x) == x.t = "num" /\ x.s = 0

RNeg(x) == [x EXCEPT !.s = -@]

RDiv(x, y) ==
  IF IsNaN(x) \/ IsNaN(y) THEN RNaN
  ELSE IF y.t = "inf" THEN (IF x.t = "inf" THEN RNaN ELSE RZero)
  ELSE IF x.t = "inf" THEN RInf(IF y.s = 0 THEN x.s ELSE x.s * y.s)
  ELSE IF y.s = 0 THEN (IF x.s = 0 THEN RNaN ELSE RInf(x.s))
  ELSE RNum(x.s * y.s, x.p * y.q, x.q * y.p, x.k - y.k)

RMul(x, y) ==
  IF IsNaN(x) \/ IsNaN(y) THEN RNaN
  ELSE IF x.t = "inf" \/ y.t = "inf"
       THEN (IF x.s = 0 \/ y.s = 0 THEN RNaN ELSE RInf(x.s * y.s))
  ELSE RNum(x.s * y.s, x.p * y.p, x.q * y.q, x.k + y.k)

\* The largest r in lo..hi with r * r <= n (lo * lo <= n)
RECURSIVE SqrtFloor(_, _, _)
SqrtFloor(n, lo, hi) ==
  IF lo >= hi THEN lo
  ELSE LET mid == (lo + hi + 1) \div 2
       IN  IF mid * mid <= n THEN SqrtFloor(n, mid, hi) ELSE SqrtFloor(n, lo, mid - 1)
IsSquare(n) == \E r \in {SqrtFloor(n, 0, IF n < 46340 THEN n ELSE 46340)} : r * r = n
\* The square root of a perfect square
ISqrt(n) == CHOOSE r \in {SqrtFloor(n, 0, IF n < 46340 THEN n ELSE 46340)} : r * r = n
\* x + y for rationals of the same unit (and for any x, y one of which is zero)
RAdd(x, y) ==
  IF IsNaN(x) \/ IsNaN(y) THEN RNaN
  ELSE IF x.t = "inf" \/ y.t = "inf"
       THEN (IF x.t = "inf" /\ y.t = "inf" /\ x.s # y.s THEN RNaN
             ELSE IF x.t = "inf" THEN x ELSE y)
  ELSE IF x.s = 0 THEN y
  ELSE IF y.s = 0 THEN x
  ELSE LET a == x.s * ISqrt(x.p) * ISqrt(y.q) + y.s * ISqrt(y.p) * ISqrt(x.q)
           b == ISqrt(x.q) * ISqrt(y.q)
       IN  RNum(Sgn(a), a * a, b * b, x.k)

RECURSIVE RSum(_)
RSum(s) == IF Len(s) = 0 THEN RZero ELSE RAdd(Head(s), RSum(Tail(s)))

\* pi and 2 pi
RPi == RNum(1, 1, 4, 1)
RTwoPi == RNum(1, 1, 1, 1)

\* x / (2 pi)
RDivTwoPi(x) == IF IsNum(x) /\ x.s # 0 THEN [x EXCEPT !.k = @ - 1] ELSE x

\* 1 - x**2, a rational when x is a plain number (k = 0)
ROneMinusSq(x) ==
  IF IsNaN(x) THEN RNaN
  ELSE IF x.t = "inf" THEN RInf(-1)
  ELSE RRat(x.q - x.p, x.q)

\* np.sqrt of a rational: not-a-number for a negative one
RSqrt(x) ==
  IF IsNaN(x) THEN RNaN
  ELSE IF x.t = "inf" THEN (IF x.s > 0 THEN RInf(1) ELSE RNaN)
  ELSE IF x.s < 0 THEN RNaN
  ELSE RNum(1, ISqrt(x.p), ISqrt(x.q), 0)

\* x < y for numbers of the same unit; every comparison with not-a-number is false
RLt(x, y) ==
  IF IsNaN(x) \/ IsNaN(y) THEN FALSE
  ELSE IF x.t = "inf" THEN x.s < 0 /\ ~(y.t = "inf" /\ y.s < 0)
  ELSE IF y.t = "inf" THEN y.s > 0
  ELSE IF x.s # y.s THEN x.s < y.s
  ELSE IF x.s > 0 THEN x.p * y.q < y.p * x.q
  ELSE IF x.s < 0 THEN x.p * y.q > y.p * x.q
  ELSE FALSE
REq(x, y) ==
  /\ ~IsNaN(x) /\ ~IsNaN(y)
  /\ x.t = y.t /\ x.s = y.s
  /\ (IsNum(x) => x.p * y.q = y.p * x.q /\ (x.s # 0 => x.k = y.k))
RLeq(x, y) == RLt(x, y) \/ REq(x, y)

\* The order numpy sorts real numbers in: not-a-number last.
RSortLeq(a, b) == IF IsNaN(b) THEN TRUE ELSE IF IsNaN(a) THEN FALSE ELSE ~RLt(b, a)

\* 1e-08 is 1 / ThresholdInv; 4 pi^2 < FourPiSqCeil
ThresholdInv == 100000000
FourPiSqCeil == 40
\* f > 1e-08 for a frequency f = s sqrt(p / q) / (2 pi):
\* p / q > 4 pi^2 1e-16.  Every positive number of the model is above it.
GtThreshold(f) ==
  IF IsNaN(f) THEN FALSE
  ELSE IF f.t = "inf" THEN f.s > 0
  ELSE f.s > 0 /\ (f.q \div f.p) \div ThresholdInv < ThresholdInv \div FourPiSqCeil

\* The parts of an eigenvalue as the code reads them.
ERe(e) == IF IsFinite(e) THEN RInt(Re(e.v)) ELSE RInf(1)
EIm(e) == IF IsFinite(e) THEN RInt(Im(e.v)) ELSE RZero
EAbs(e) == IF IsFinite(e) THEN RSqrtInt(Abs2(e.v)) ELSE RInf(1)

\* ---------------------------------------------------------------- orderings
\* numpy's order of complex numbers: by real part, then by imaginary part;
\* inf + 0j after every finite value.
EigLeq(a, b) ==
  IF ~IsFinite(b) THEN TRUE
  ELSE IF ~IsFinite(a) THEN FALSE
  ELSE Re(a.v) < Re(b.v) \/ (Re(a.v) = Re(b.v) /\ Im(a.v) <= Im(b.v))

\* The order numpy sorts the keys of an array in: eigenvalues (complex) or
\* real numbers.
KeyLeq(a, b) == IF "v" \in DOMAIN a THEN EigLeq(a, b) ELSE RSortLeq(a, b)

\* numpy.argsort: a permutation I with keys[I] in non-decreasing order; the
\* order of equal keys is the sort's own and is not fixed here.
ArgSorts(keys) ==
  {I \in Perms(Len(keys)) :
     \A i \in 1..(Len(keys) - 1) : KeyLeq(keys[I[i]], keys[I[i + 1]])}

Identity(n) == Vec([i \in 1..n |-> i])
\* Fancy indexing s[I].
Take(s, I) == Vec([i \in 1..Len(I) |-> s[I[i]]])

\* ------------------------------------------------------------------ polyeig
NoError == "none"
\* PolyeigCheck with the emptiness test off by one (len(A) < 0).
PolyeigCheck_EmptyAccepted(A) ==
  IF Len(A) = 0 THEN "none"
  ELSE IF \E i \in 1..Len(A) : NRows(A[i]) # NCols(A[i]) THEN "Matrices must be square"
  ELSE IF \E i \in 1..Len(A) : Shape(A[i]) # Shape(A[1])
       THEN "All matrices must have the same shapes"
  ELSE "none"

\* eva.py 38-44: the first check that fails, in the order the code runs them.
PolyeigCheck(A) ==
  IF Len(A) <= 0 THEN "Provide at least one matrix"
  ELSE LET Bad(i) == NRows(A[i]) # NCols(A[i]) \/ Shape(A[i]) # Shape(A[1])
       IN  IF \A i \in 1..Len(A) : ~Bad(i) THEN NoError
           ELSE LET i == CHOOSE k \in 1..Len(A) : Bad(k) /\ \A m \in 1..(k - 1) : ~Bad(m)
                IN  IF NRows(A[i]) # NCols(A[i]) THEN "Matrices must be square"
                    ELSE "All matrices must have the same shapes"

\* np.column_stack of a non-empty sequence of matrices
RECURSIVE ColumnStack(_)
ColumnStack(As) ==
  IF Len(As) = 1 THEN As[1] ELSE HCat(As[1], ColumnStack(Tail(As)))

\* CompanionC without the negation of the stacked coefficients.
CompanionC_NotNegated(A) ==
  LET n == NRows(A[1])
      l == Len(A) - 1
  IN  VCat(HCat(ZeroMat(n * (l - 1), n), Eye(n * (l - 1))),
           ColumnStack(SubSeq(A, 1, l)))

\* eva.py 49-52, for l >= 1
CompanionC(A) ==
  LET n == NRows(A[1])
      l == Len(A) - 1
  IN  VCat(HCat(ZeroMat(n * (l - 1), n), Eye(n * (l - 1))),
           MatNeg(ColumnStack(SubSeq(A, 1, l))))

\* eva.py 53-56, for l >= 1
CompanionD(A) ==
  LET n == NRows(A[1])
      l == Len(A) - 1
  IN  VCat(HCat(Eye(n * (l - 1)), ZeroMat(n * (l - 1), n)),
           HCat(ZeroMat(n, n * (l - 1)), A[Len(A)]))

\* X[:n,:]
TruncRows(X, n) == Vec([j \in 1..Len(X) |-> SubSeq(X[j], 1, n)])

\* max(abs(x))^2 of a column
RECURSIVE MaxAbs2(_)
MaxAbs2(x) ==
  IF Len(x) = 0 THEN 0
  ELSE LET t == MaxAbs2(Tail(x)) IN IF Abs2(Head(x)) >= t THEN Abs2(Head(x)) ELSE t

\* An eigenvector column after the code's divisions: num / (dc * sqrt(d2)), with
\* num the solver's column, d2 the square of the real divisor and dc the complex
\* divisor.  d2 = 0 is the division 0 / 0 of every entry that is zero
\* (not-a-number) and the division by zero of the others (infinite); d2 < 0 is
\* the square root of a negative number (not-a-number).
Col(x, d2, dc) == [num |-> x, d2 |-> d2, dc |-> dc]
RawCol(x) == Col(x, 1, One)
RawCols(X) == Vec([j \in 1..Len(X) |-> RawCol(X[j])])
IsNumCol(c) == c.d2 > 0 /\ c.dc # Zero
\* A column divided by max(abs(column)), for a column as the solver returned it
\* (d2 = 1, dc = 1).
DivByMaxAbs(c) == Col(c.num, MaxAbs2(c.num), One)
\* eva.py 70
ScaleByMax(X) == Vec([j \in 1..Len(X) |-> DivByMaxAbs(RawCol(X[j]))])

\* PolyeigResult with the columns of X left in the solver's order.
PolyeigResult_XUnsorted(A, sort, sl, I) ==
  LET n == NRows(A[1])
      e2 == IF sort THEN Take(sl.e, I) ELSE sl.e
  IN  [status |-> "ok", X |-> ScaleByMax(TruncRows(sl.X, n)), e |-> e2]

\* eva.py 57-72, given the solver's result and the sort's permutation
PolyeigResult(A, sort, sl, I) ==
  LET n == NRows(A[1])
      X1 == TruncRows(sl.X, n)
      X2 == IF sort THEN Take(X1, I) ELSE X1
      e2 == IF sort THEN Take(sl.e, I) ELSE sl.e
  IN  [status |-> "ok", X |-> ScaleByMax(X2), e |-> e2]

\* ---------------------------------------------------------------------- eig
\* An optional argument: <<>> is None, <<v>> is the value v.
None == <<>>
Some(v) == <<v>>
IsNone(o) == Len(o) = 0
Val(o) == o[1]

\* ModalMass without the mass matrix: q^T q.
ModalMass_NoMass(q, M) == Dot(q, q)

\* q^T M q
ModalMass(q, M) == Dot(q, MatVec(M, q))

\* eva.py 91-94: every column divided by the square root of its modal mass
MassNormalize(X, M) ==
  Vec([j \in 1..NCols(M) |-> Col(X[j], Re(ModalMass(X[j], M)), One)])

\* eva.py 95-96: the diagonal of Q^T K Q for the mass-normalized Q
LambdaDiag(Q, K) ==
  Vec([j \in 1..Len(Q) |->
         IF Q[j].d2 > 0 THEN RRat(Re(Dot(Q[j].num, MatVec(K, Q[j].num))), Q[j].d2)
         ELSE RNaN])

\* np.argmax(np.abs(q)): the first index of the largest magnitude
ArgMaxAbs(q) ==
  CHOOSE i \in 1..Len(q) :
    /\ \A k \in 1..Len(q) : Abs2(q[k]) <= Abs2(q[i])
    /\ \A k \in 1..(i - 1) : Abs2(q[k]) < Abs2(q[i])

\* NormByMaxEntry dividing by the magnitude of that entry, its sign dropped.
NormByMaxEntry_Magnitude(Q) ==
  Vec([j \in 1..Len(Q) |-> Col(Q[j].num, Abs2(Q[j].num[ArgMaxAbs(Q[j].num)]), One)])

\* eva.py 110-115: every column divided by its entry of largest magnitude
NormByMaxEntry(Q) ==
  Vec([j \in 1..Len(Q) |-> Col(Q[j].num, 1, Q[j].num[ArgMaxAbs(Q[j].num)])])

\* np.diag of a vector of real numbers, of a vector of eigenvalues
DiagR(d) == Vec([i \in 1..Len(d) |-> Vec([j \in 1..Len(d) |-> IF i = j THEN d[i] ELSE RZero])])
DiagE(d) == Vec([i \in 1..Len(d) |-> Vec([j \in 1..Len(d) |-> IF i = j THEN d[i] ELSE FinE(Zero)])])
\* np.diag of a matrix
DiagOf(L) == Vec([i \in 1..Len(L) |-> L[i][i]])

\* eva.py 85-88: the pencil handed to linalg.eig
EigPencilD(K, M) == IF IsNone(M) THEN Eye(NRows(K)) ELSE Val(M)

\* eva.py 102-107: Lambda.ndim, 1 for the vector of frequencies and 2 for the
\* matrix np.diag builds
LambdaNDim(M, freq_out) == IF ~IsNone(M) /\ freq_out THEN 1 ELSE 2

\* eva.py 89-117, given the solver's result sl and the permutation I of argsort
EigResult(K, M, freq_out, sort, normQ, sl, I) ==
  LET Q1 == IF IsNone(M) THEN RawCols(sl.X) ELSE MassNormalize(sl.X, Val(M))
      ld == LambdaDiag(Q1, K)
      Q2 == IF ~IsNone(M) /\ sort THEN Take(Q1, I) ELSE Q1
      ld2 == IF sort THEN Take(ld, I) ELSE ld
      Lambda == IF IsNone(M) THEN DiagE(sl.e)
                ELSE IF freq_out
                     THEN Vec([j \in 1..Len(ld2) |-> RDivTwoPi(RSqrt(ld2[j]))])
                     ELSE DiagR(ld2)
      Q3 == IF normQ = "byMax" THEN NormByMaxEntry(Q2) ELSE Q2
  IN  [Q |-> Q3, Lambda |-> Lambda, ndim |-> LambdaNDim(M, freq_out)]

\* The permutations argsort may return in eig (none is computed without M).
EigSorts(K, M, sl) ==
  IF IsNone(M) THEN {Identity(Len(sl.e))}
  ELSE ArgSorts(LambdaDiag(MassNormalize(sl.X, Val(M)), K))

\* --------------------------------------------------------------------- eigA
\* int(x / 2): the division truncates towards zero
IntHalf(x) == IF x >= 0 THEN x \div 2 ELSE -((-x) \div 2)

\* EigAPartition with nq1 defaulting to 0 also when nq is supplied, and a
\* supplied nq1 kept.
EigAPartition_DefaultZero(n, nq, nq1) ==
  LET f == IF IsNone(nq1) THEN 0 ELSE Val(nq1)
  IN  IF IsNone(nq) THEN [nq |-> IntHalf(n - f), nq1 |-> f]
      ELSE [nq |-> Val(nq), nq1 |-> f]

\* eva.py 144-149: the partition (nq, nq1) the code goes on with
EigAPartition(n, nq, nq1) ==
  IF IsNone(nq)
  THEN LET f == IF IsNone(nq1) THEN 0 ELSE Val(nq1)
       IN  [nq |-> IntHalf(n - f), nq1 |-> f]
  ELSE [nq |-> Val(nq), nq1 |-> n - 2 * Val(nq)]

\* eva.py 142-151: the error eigA raises before the eigen-solve
EigACheck(A, nq, nq1) ==
  IF NCols(A) # NRows(A) THEN "Matrix needs to be squared"
  ELSE LET pt == EigAPartition(NRows(A), nq, nq1)
       IN  IF NRows(A) # 2 * pt.nq + pt.nq1 \/ pt.nq1 < 0
           THEN "Number of 1st and second order dofs should match the matrix shape (n= 2*nq + nq1"
           ELSE NoError

\* range(*slice(a, b).indices(N)), as 1-based row numbers
SliceRows(a, b, N) ==
  LET Clip(i) == IF i < 0 THEN (IF N + i < 0 THEN 0 ELSE N + i)
                 ELSE IF i > N THEN N ELSE i
  IN  {r \in 1..N : Clip(a) < r /\ r <= Clip(b)}

\* The elements of s whose index is in keep, in their order.
RECURSIVE KeepIdx(_, _, _)
KeepIdx(s, keep, i) ==
  IF i > Len(s) THEN <<>>
  ELSE (IF i \in keep THEN <<s[i]>> ELSE <<>>) \o KeepIdx(s, keep, i + 1)

\* DeleteRows deleting the rows of slice(0, a), the positions.
DeleteRows_Positions(Q, a, b) ==
  Vec([j \in 1..Len(Q) |->
         [Q[j] EXCEPT !.num = KeepIdx(@, (1..Len(@)) \ SliceRows(0, a, Len(@)), 1)]])

\* np.delete(Q, slice(a, b), axis=0)
DeleteRows(Q, a, b) ==
  Vec([j \in 1..Len(Q) |->
         [Q[j] EXCEPT !.num = KeepIdx(@, (1..Len(@)) \ SliceRows(a, b, Len(@)), 1)]])

\* PosImag with imag(v) != 0.
PosImag_NonZero(v) == {j \in 1..Len(v) : ~IsZero(EIm(v[j]))}

\* eva.py 159: the indices of the eigenvalues with imag(v) > 0
PosImag(v) == {j \in 1..Len(v) : RLt(RZero, EIm(v[j]))}

\* eva.py 178-181
NormByMaxAbs(Q) == Vec([j \in 1..Len(Q) |-> DivByMaxAbs(Q[j])])

\* eva.py 164-167 on the retained eigenvalues v
EigAModes(v) ==
  [omega_0 |-> Vec([j \in 1..Len(v) |-> EAbs(v[j])]),
   freq_d |-> Vec([j \in 1..Len(v) |-> RDivTwoPi(EIm(v[j]))]),
   zeta |-> Vec([j \in 1..Len(v) |-> RDiv(RNeg(ERe(v[j])), EAbs(v[j]))]),
   freq_0 |-> Vec([j \in 1..Len(v) |-> RDivTwoPi(EAbs(v[j]))])]

\* eva.py 152-156: Q and v before the selection
EigAFull(A, pt, fullEV, sl) ==
  LET r == EigResult(A, None, FALSE, FALSE, "None", sl, Identity(Len(sl.e)))
  IN  [Q |-> IF fullEV THEN r.Q ELSE DeleteRows(r.Q, pt.nq, 2 * pt.nq),
       v |-> DiagOf(r.Lambda)]

\* eva.py 158-167: the retained modes, before the sort
EigASelected(A, pt, fullEV, sl) ==
  LET f == EigAFull(A, pt, fullEV, sl)
      Ipos == PosImag(f.v)
  IN  [Q |-> KeepIdx(f.Q, Ipos, 1), m |-> EigAModes(KeepIdx(f.v, Ipos, 1))]

\* EigAResult with zeta left in the order of the selection.
EigAResult_ZetaUnsorted(A, pt, fullEV, normQ, sl, I) ==
  LET sel == EigASelected(A, pt, fullEV, sl)
      Q == Take(sel.Q, I)
  IN  [status |-> "ok",
       freq_d |-> Take(sel.m.freq_d, I),
       zeta |-> sel.m.zeta,
       Q |-> IF normQ = "byMax" THEN NormByMaxAbs(Q) ELSE Q,
       freq_0 |-> Take(sel.m.freq_0, I)]

\* eva.py 169-182, given the permutation I of argsort
EigAResult(A, pt, fullEV, normQ, sl, I) ==
  LET sel == EigASelected(A, pt, fullEV, sl)
      Q == Take(sel.Q, I)
  IN  [status |-> "ok",
       freq_d |-> Take(sel.m.freq_d, I),
       zeta |-> Take(sel.m.zeta, I),
       Q |-> IF normQ = "byMax" THEN NormByMaxAbs(Q) ELSE Q,
       freq_0 |-> Take(sel.m.freq_0, I)]

\* ------------------------------------------------------------------- eigMCK
\* Lower without the lowering: the method name as given.
Lower_AsGiven(m) == m

\* method.lower(), for the method names of the model
Lower(m) ==
  CASE m = "FULL_MATRIX" -> "full_matrix"
    [] m = "Diag_Beta" -> "diag_beta"
    [] OTHER -> m

\* Entry (row i, column a) of a matrix of columns, as a real number
ColEntry(Q, i, a) ==
  IF Q[a].d2 > 0 THEN RDiv(RInt(Re(Q[a].num[i])), RSqrtInt(Q[a].d2)) ELSE RNaN

\* eva.py 194: diag(Q C Q^T), entry j = sum over a, b of Q[j,a] C[a,b] Q[j,b]
BetaDiag(Q, C) ==
  Vec([j \in 1..Len(Q) |->
         RSum(Vec([a \in 1..Len(Q) |->
                RSum(Vec([b \in 1..Len(Q) |->
                       RMul(RMul(ColEntry(Q, j, a), RInt(Re(C[a][b]))),
                            ColEntry(Q, j, b))]))]))])

\* DiagBetaModes with zeta = xi, the logarithmic decrement not divided by 2 pi.
DiagBetaModes_ZetaIsXi(C, r) ==
  LET lam == DiagOf(r.Lambda)
      n == Len(lam)
      freq_0 == Vec([j \in 1..n |-> RDivTwoPi(RSqrt(lam[j]))])
      beta == BetaDiag(r.Q, C)
      xi0 == Vec([j \in 1..n |-> RDiv(RMul(beta[j], RPi), RMul(RTwoPi, freq_0[j]))])
      zeta == Vec([j \in 1..n |-> IF RLt(RTwoPi, xi0[j]) THEN RNaN ELSE xi0[j]])
  IN  [freq_d |-> Vec([j \in 1..n |-> RMul(freq_0[j], RSqrt(ROneMinusSq(zeta[j])))]),
       zeta |-> zeta,
       Q |-> r.Q]

\* DiagBetaModes without the marking of the modes above 2 pi.
DiagBetaModes_NoSentinel(C, r) ==
  LET lam == DiagOf(r.Lambda)
      n == Len(lam)
      freq_0 == Vec([j \in 1..n |-> RDivTwoPi(RSqrt(lam[j]))])
      beta == BetaDiag(r.Q, C)
      xi == Vec([j \in 1..n |-> RDiv(RMul(beta[j], RPi), RMul(RTwoPi, freq_0[j]))])
      zeta == Vec([j \in 1..n |-> RDiv(xi[j], RTwoPi)])
  IN  [freq_d |-> Vec([j \in 1..n |-> RMul(freq_0[j], RSqrt(ROneMinusSq(zeta[j])))]),
       zeta |-> zeta,
       Q |-> r.Q]

\* eva.py 192-198, given the result r of eig(K, M, sort=False)
DiagBetaModes(C, r) ==
  LET lam == DiagOf(r.Lambda)
      n == Len(lam)
      freq_0 == Vec([j \in 1..n |-> RDivTwoPi(RSqrt(lam[j]))])
      beta == BetaDiag(r.Q, C)
      xi0 == Vec([j \in 1..n |-> RDiv(RMul(beta[j], RPi), RMul(RTwoPi, freq_0[j]))])
      xi == Vec([j \in 1..n |-> IF RLt(RTwoPi, xi0[j]) THEN RNaN ELSE xi0[j]])
      zeta == Vec([j \in 1..n |-> RDiv(xi[j], RTwoPi)])
  IN  [freq_d |-> Vec([j \in 1..n |-> RMul(freq_0[j], RSqrt(ROneMinusSq(zeta[j])))]),
       zeta |-> zeta,
       Q |-> r.Q]

\* ValidIdx with abs(freq_d) > 1e-08.
ValidIdx_Abs(freq_d) ==
  {j \in 1..Len(freq_d) : GtThreshold(freq_d[j]) \/ GtThreshold(RNeg(freq_d[j]))}

\* eva.py 206: the indices with freq_d > 1e-08
ValidIdx(freq_d) == {j \in 1..Len(freq_d) : GtThreshold(freq_d[j])}

\* FullMatrixModes with zeta = real(e) / abs(e), the sign dropped.
FullMatrixModes_ZetaSign(pe) ==
  LET n == Len(pe.e)
      zeta == Vec([j \in 1..n |-> RDiv(ERe(pe.e[j]), EAbs(pe.e[j]))])
      freq_d == Vec([j \in 1..n |-> RDivTwoPi(EIm(pe.e[j]))])
      bValid == ValidIdx(freq_d)
  IN  [freq_d |-> KeepIdx(freq_d, bValid, 1),
       zeta |-> KeepIdx(zeta, bValid, 1),
       Q |-> KeepIdx(pe.X, bValid, 1)]

\* FullMatrixModes with zeta = - imag(e) / abs(e).
FullMatrixModes_ZetaFromImag(pe) ==
  LET n == Len(pe.e)
      zeta == Vec([j \in 1..n |-> RDiv(RNeg(EIm(pe.e[j])), EAbs(pe.e[j]))])
      freq_d == Vec([j \in 1..n |-> RDivTwoPi(EIm(pe.e[j]))])
      bValid == ValidIdx(freq_d)
  IN  [freq_d |-> KeepIdx(freq_d, bValid, 1),
       zeta |-> KeepIdx(zeta, bValid, 1),
       Q |-> KeepIdx(pe.X, bValid, 1)]

\* eva.py 201-209, given the result pe of polyeig(K, C, M)
FullMatrixModes(pe) ==
  LET n == Len(pe.e)
      zeta == Vec([j \in 1..n |-> RDiv(RNeg(ERe(pe.e[j])), EAbs(pe.e[j]))])
      freq_d == Vec([j \in 1..n |-> RDivTwoPi(EIm(pe.e[j]))])
      bValid == ValidIdx(freq_d)
  IN  [freq_d |-> KeepIdx(freq_d, bValid, 1),
       zeta |-> KeepIdx(zeta, bValid, 1),
       Q |-> KeepIdx(pe.X, bValid, 1)]

\* NaturalFreq with the factor multiplied, not divided.
NaturalFreq_Multiplied(freq_d, zeta) == RMul(freq_d, RSqrt(ROneMinusSq(zeta)))

\* eva.py 220
NaturalFreq(freq_d, zeta) == RDiv(freq_d, RSqrt(ROneMinusSq(zeta)))

\* EigMCKResult with zeta left in the order of the method.
EigMCKResult_ZetaUnsorted(m, sort, I) ==
  LET freq_d == IF sort THEN Take(m.freq_d, I) ELSE m.freq_d
  IN  [status |-> "ok",
       freq_d |-> freq_d,
       zeta |-> m.zeta,
       Q |-> IF sort THEN Take(m.Q, I) ELSE m.Q,
       freq_0 |-> Vec([j \in 1..Len(freq_d) |-> NaturalFreq(freq_d[j], m.zeta[j])])]

\* EigMCKResult without the sort.
EigMCKResult_Unsorted(m, sort, I) ==
  [status |-> "ok",
   freq_d |-> m.freq_d,
   zeta |-> m.zeta,
   Q |-> m.Q,
   freq_0 |-> Vec([j \in 1..Len(m.freq_d) |-> NaturalFreq(m.freq_d[j], m.zeta[j])])]

\* eva.py 213-222, given the modes of either method and the permutation I of argsort
EigMCKResult(m, sort, I) ==
  LET freq_d == IF sort THEN Take(m.freq_d, I) ELSE m.freq_d
      zeta == IF sort THEN Take(m.zeta, I) ELSE m.zeta
  IN  [status |-> "ok",
       freq_d |-> freq_d,
       zeta |-> zeta,
       Q |-> IF sort THEN Take(m.Q, I) ELSE m.Q,
       freq_0 |-> Vec([j \in 1..Len(freq_d) |-> NaturalFreq(freq_d[j], zeta[j])])]

\* ----------------------------------------------------------------- inputs
R(x) == CReal(x)
Mat1(a) == <<<<R(a)>>>>
Mat2(a, b, c, d) == <<<<R(a), R(b)>>, <<R(c), R(d)>>>>

\* 1 x 1 coefficient matrices
Mats1 == {Mat1(a) : a \in -MaxEntry..MaxEntry}
\* 2 x 2 coefficient matrices
Masses2 == {Mat2(1, 0, 0, 1), Mat2(1, 0, 0, 2), Mat2(1, 0, 0, 0)}
Dampings2 == {Mat2(c1, 0, 0, c2) : c1 \in {0, 2, 4}, c2 \in {0, 2, 4}}
Stiffnesses2 == {Mat2(k1, -b, -b, k2) : k1 \in {2, 4, 5}, k2 \in {1, 5, 6}, b \in {0, 2}}
\* Matrices of other shapes: 1 x 2, 2 x 1, and a 1 x 1 and a 2 x 2 to go with them.
Shapes == {<<<<R(1), R(0)>>>>, <<<<R(1)>>, <<R(0)>>>>, Mat1(1), Mat2(1, 0, 0, 1)}

RECURSIVE SeqsUpTo(_, _)
SeqsUpTo(S, n) ==
  IF n = 0 THEN {<<>>}
  ELSE LET T == SeqsUpTo(S, n - 1)
       IN  T \cup {Append(t, x) : t \in {u \in T : Len(u) = n - 1}, x \in S}

\* The argument lists given to polyeig.
PolyInputs ==
  SeqsUpTo(Mats1, MaxLen)
    \cup SeqsUpTo(Shapes, 3)
    \cup {<<K, C, M>> : K \in Stiffnesses2, C \in Dampings2, M \in Masses2}
    \cup {<<K, M>> : K \in Stiffnesses2, M \in Masses2 \cup Dampings2}

\* One-degree-of-freedom systems <<M, C, K>>
Mech1 ==
  {<<Mat1(m), Mat1(c), Mat1(k)>> : m \in 0..MaxMass, c \in 0..MaxDamp, k \in 0..MaxStiff}
\* Two-degree-of-freedom systems <<M, C, K>>
\* Stiffness matrices that are not symmetric (circulatory forces).
Circulatory2 == {Mat2(0, 2, -2, 0), Mat2(2, 1, 2, 3)}
Mech2 ==
  {<<M, C, K>> : M \in Masses2, C \in Dampings2, K \in Stiffnesses2}
    \cup {<<Mat2(1, 0, 0, 1), C, K>> :
            C \in {Mat2(0, 0, 0, 0), Mat2(2, 0, 0, 2)}, K \in Circulatory2}
MechInputs == Mech1 \cup Mech2
Methods == {"full_matrix", "FULL_MATRIX", "diag_beta", "Diag_Beta", "modal", ""}

\* The state matrix [[0, I, 0], [-K, -C, 0], [0, 0, -diag(poles)]] of the system
\* q'' + C q' + K q = 0 with first-order states q1' = -pole q1 appended.
StateMat(K, C, poles) ==
  LET n == NRows(K)
      f == Len(poles)
      top == HCat(HCat(ZeroMat(n, n), Eye(n)), ZeroMat(n, f))
      mid == HCat(HCat(MatNeg(K), MatNeg(C)), ZeroMat(n, f))
      low == HCat(ZeroMat(f, 2 * n), Diag(Vec([i \in 1..f |-> R(-poles[i])])))
  IN  VCat(VCat(top, mid), low)

Empty0 == <<>>
StateSystems ==
  {<<Empty0, Empty0>>}
    \cup {<<Mat1(k), Mat1(c)>> : k \in 0..MaxStiff, c \in 0..MaxDamp}
    \cup {<<K, C>> : K \in {Mat2(2, 0, 0, 5), Mat2(5, 0, 0, 1), Mat2(2, 1, 2, 3)},
                     C \in {Mat2(0, 0, 0, 0), Mat2(2, 0, 0, 2)}}
\* The matrices given to eigA: state matrices, and one that is not square.
StateMats ==
  ({StateMat(sy[1], sy[2], poles) :
      sy \in StateSystems, poles \in SeqsUpTo({1}, MaxFirst)} \ {<<>>})
    \cup {<<<<R(0), R(1)>>>>}
OptArgs == {None} \cup {Some(v) : v \in -1..MaxArg}

\* The arguments given to eig: K, and M (None, or a positive-definite matrix).
EigInputs ==
  {<<K, M>> : K \in Mats1, M \in {None} \cup {Some(Mat1(m)) : m \in 1..MaxMass}}
    \cup {<<K, M>> : K \in Stiffnesses2 \cup Dampings2 \cup Circulatory2,
                     M \in {None, Some(Mat2(1, 0, 0, 1)), Some(Mat2(1, 0, 0, 2))}}

\* -------------------------------------------------------------- the program
\* fn: the function called ("idle" before a call); args: its arguments;
\* stages: the stages of the function that ran, in order; sol: what linalg.eig
\* returned to it; perm: what np.argsort returned to it; out: what the call
\* returned or raised; mem: the caller's arrays, the ones it passed, as the
\* call left them; ncall: how many times the caller has made the call.
VARIABLES fn, args, stages, sol, perm, out, mem, ncall
vars == <<fn, args, stages, sol, perm, out, mem, ncall>>

NoSol == [e |-> <<>>, X |-> <<>>]
NoArgs == [none |-> TRUE]
NoOut == [status |-> "none"]
NoPerm == <<>>
NoMem == [none |-> TRUE]
Raised(kind, msg) == [status |-> kind, msg |-> msg]

Init ==
  /\ fn = "idle"
  /\ args = NoArgs
  /\ stages = <<>>
  /\ sol = NoSol
  /\ perm = NoPerm
  /\ out = NoOut
  /\ mem = NoMem
  /\ ncall = 0

\* ------------------------------------------------------------------ arrays
\* The buffer an array of a call lives in: a buffer of the caller, named as
\* the argument that was passed ("K", "M", "C", "A"), or one made in the call.
Local == "local"

\* SolverBuffer with overwrite_a=True: the result is left in the first input.
SolverBuffer_Overwrite(a) == a

\* eva.py 58, 86, 88: the buffer of what linalg.eig returns for a first input
\* in buffer a; with overwrite_a and overwrite_b left False it is a new one
SolverBuffer(a) == Local

\* eva.py 49-70: the buffers polyeig writes to in place.  The solver's inputs
\* are the blocks np.block has built (new arrays); X = X[:n,:] is a view of
\* the solver's X, X[:,I] is a copy, and X /= ... of line 70 writes to X.
PolyeigWrites(sort) == {IF sort THEN Local ELSE SolverBuffer(Local)}

\* eva.py 85-115: the buffers eig writes to in place, for K passed in buffer k.
\* Q[:,j] = ... of line 94 writes to the solver's Q; Q[:,I] of line 99 is a
\* copy; Q[:,j] = ... of line 115 writes to the Q of that moment.
EigWrites(k, M, sort, normQ) ==
  (IF IsNone(M) THEN {} ELSE {SolverBuffer(k)})
    \cup (IF normQ = "byMax"
          THEN {IF ~IsNone(M) /\ sort THEN Local ELSE SolverBuffer(k)}
          ELSE {})

\* EigAWrites with the Q of line 181 in the buffer of A.
EigAWrites_OnA(normQ) == IF normQ = "byMax" THEN {"A"} ELSE {}

\* eva.py 152-181: eig(A, sort=False), then Q[:,Ipos] and Q[:,I] are copies
\* and Q[:,j] = ... of line 181 writes to the copy.
EigAWrites(normQ) ==
  EigWrites("A", None, FALSE, "None") \cup (IF normQ = "byMax" THEN {Local} ELSE {})

\* eva.py 191-201: eig(K, M, sort=False) and xi[...] = NaN on the new xi for
\* diag_beta, polyeig(K, C, M) for full_matrix.
EigMCKWrites(M, method) ==
  IF Lower(method) = "diag_beta"
  THEN EigWrites("K", Some(M), FALSE, "None") \cup {Local}
  ELSE IF Lower(method) = "full_matrix" THEN PolyeigWrites(FALSE)
  ELSE {}

\* The buffers a call writes to in place once it is past its checks.
Writes(f, a) ==
  IF f = "polyeig" THEN PolyeigWrites(a.sort)
  ELSE IF f = "eig" THEN EigWrites("K", a.M, a.sort, a.normQ)
  ELSE IF f = "eigA" THEN EigAWrites(a.normQ)
  ELSE EigMCKWrites(a.M, a.method)

\* The arrays the caller passed, by the name of the argument.
CallerArrays(f, a) ==
  IF f = "polyeig" \/ f = "eigA" THEN [A |-> a.A]
  ELSE IF f = "eig" THEN [K |-> a.K, M |-> a.M]
  ELSE [M |-> a.M, C |-> a.C, K |-> a.K]

\* What a buffer of the caller holds once a call has written to it: no longer
\* the caller's matrix (zeros, in the model).
Clobbered(A) == ZeroMat(NRows(A), NCols(A))

\* The caller's arrays after the call f(a); wrote: the call got past its
\* checks, to its in-place statements.
MemAfter(f, a, wrote) ==
  [x \in DOMAIN CallerArrays(f, a) |->
     IF wrote /\ x \in Writes(f, a) THEN Clobbered(CallerArrays(f, a)[x])
     ELSE CallerArrays(f, a)[x]]

\* eva.py 24-72
Polyeig ==
  /\ fn = "idle"
  /\ fn' = "polyeig"
  /\ \E A \in PolyInputs :
       IF PolyeigCheck(A) # NoError
       THEN \E sort \in BOOLEAN :
              /\ args' = [A |-> A, sort |-> sort]
              /\ stages' = <<"check">>
              /\ sol' = NoSol
              /\ perm' = NoPerm
              /\ out' = Raised("Exception", PolyeigCheck(A))
       ELSE IF Len(A) - 1 < 1
       THEN \* np.zeros((n*(l-1), n)) with a negative dimension
            \E sort \in BOOLEAN :
              /\ args' = [A |-> A, sort |-> sort]
              /\ stages' = <<"check", "assemble">>
              /\ sol' = NoSol
              /\ perm' = NoPerm
              /\ out' = Raised("ValueError", "negative dimensions are not allowed")
       ELSE \E sl \in LinalgEig(CompanionC(A), CompanionD(A)) :
            \E sort \in BOOLEAN :
            \E I \in IF sort THEN ArgSorts(sl.e) ELSE {Identity(Len(sl.e))} :
              /\ args' = [A |-> A, sort |-> sort]
              /\ stages' = <<"check", "assemble", "solve", "scale">>
              /\ sol' = sl
              /\ perm' = I
              /\ out' = PolyeigResult(A, sort, sl, I)
  /\ mem' = MemAfter("polyeig", args', out'.status = "ok")
  /\ ncall' = 1

\* What eig needs of the solver's result to mass-normalize it within the numbers
\* of the model: real eigenvectors of positive modal mass.
MassNormalizable(sl, M) ==
  \A j \in 1..Len(sl.X) :
     /\ \A i \in 1..Len(sl.X[j]) : Im(sl.X[j][i]) = 0
     /\ Im(ModalMass(sl.X[j], M)) = 0
     /\ Re(ModalMass(sl.X[j], M)) > 0

\* eva.py 75-117
Eig ==
  /\ fn = "idle"
  /\ fn' = "eig"
  /\ \E in \in EigInputs :
     \E sl \in LinalgEig(in[1], EigPencilD(in[1], in[2])) :
     \E freq_out, sort \in BOOLEAN, normQ \in {"None", "byMax"} :
     \E I \in EigSorts(in[1], in[2], sl) :
       /\ IF IsNone(in[2]) THEN TRUE ELSE MassNormalizable(sl, Val(in[2]))
       /\ args' = [K |-> in[1], M |-> in[2], freq_out |-> freq_out, sort |-> sort,
                   normQ |-> normQ]
       /\ stages' = <<"solve", "sort">>
       /\ sol' = sl
       /\ perm' = I
       /\ out' = [status |-> "ok"]
                   @@ EigResult(in[1], in[2], freq_out, sort, normQ, sl, I)
  /\ mem' = MemAfter("eig", args', out'.status = "ok")
  /\ ncall' = 1

\* eva.py 120-182
EigA ==
  /\ fn = "idle"
  /\ fn' = "eigA"
  /\ \E A \in StateMats :
     \E nq \in OptArgs, nq1 \in OptArgs :
       IF EigACheck(A, nq, nq1) # NoError
       THEN \E fullEV \in BOOLEAN, normQ \in {"None", "byMax"} :
              /\ args' = [A |-> A, nq |-> nq, nq1 |-> nq1, fullEV |-> fullEV,
                          normQ |-> normQ]
              /\ stages' = <<"check">>
              /\ sol' = NoSol
              /\ perm' = NoPerm
              /\ out' = Raised("Exception", EigACheck(A, nq, nq1))
       ELSE \E sl \in LinalgEig(A, Eye(NRows(A))) :
            \E fullEV \in BOOLEAN, normQ \in {"None", "byMax"} :
            \E I \in ArgSorts(EigASelected(A, EigAPartition(NRows(A), nq, nq1),
                                           fullEV, sl).m.freq_0) :
              /\ args' = [A |-> A, nq |-> nq, nq1 |-> nq1, fullEV |-> fullEV,
                          normQ |-> normQ]
              /\ stages' = <<"check", "solve", "select", "sort">>
              /\ sol' = sl
              /\ perm' = I
              /\ out' = EigAResult(A, EigAPartition(NRows(A), nq, nq1), fullEV,
                                   normQ, sl, I)
  /\ mem' = MemAfter("eigA", args', out'.status = "ok")
  /\ ncall' = 1

\* eva.py 120-182, called once more by the same caller: on the array A as the
\* first call left it, with the other arguments as before.  linalg.eig and
\* np.argsort are functions: on the matrix of the first call they return what
\* they returned then.
EigAAgain ==
  /\ fn = "eigA"
  /\ ncall = 1
  /\ fn' = "eigA"
  /\ args' = [args EXCEPT !.A = mem.A]
  /\ IF EigACheck(mem.A, args.nq, args.nq1) # NoError
     THEN /\ stages' = <<"check">>
          /\ sol' = NoSol
          /\ perm' = NoPerm
          /\ out' = Raised("Exception", EigACheck(mem.A, args.nq, args.nq1))
     ELSE \E sl \in IF mem.A = args.A THEN {sol}
                    ELSE LinalgEig(mem.A, Eye(NRows(mem.A))) :
          \E I \in IF mem.A = args.A THEN {perm}
                   ELSE ArgSorts(EigASelected(mem.A,
                                   EigAPartition(NRows(mem.A), args.nq, args.nq1),
                                   args.fullEV, sl).m.freq_0) :
            /\ stages' = <<"check", "solve", "select", "sort">>
            /\ sol' = sl
            /\ perm' = I
            /\ out' = EigAResult(mem.A, EigAPartition(NRows(mem.A), args.nq, args.nq1),
                                 args.fullEV, args.normQ, sl, I)
  /\ mem' = MemAfter("eigA", args', out'.status = "ok")
  /\ ncall' = 2

\* eva.py 185-222
EigMCK ==
  /\ fn = "idle"
  /\ fn' = "eigMCK"
  /\ \E in \in MechInputs :
     \E method \in Methods :
       LET M == in[1]
           C == in[2]
           K == in[3]
       IN
       IF Lower(method) = "diag_beta"
       THEN \E sl \in LinalgEig(K, M) :
            \E sort \in BOOLEAN :
            \E I \in IF sort /\ MassNormalizable(sl, M)
                     THEN ArgSorts(DiagBetaModes(C, EigResult(K, Some(M), FALSE, FALSE,
                                     "None", sl, Identity(Len(sl.e)))).freq_d)
                     ELSE {Identity(Len(sl.e))} :
              /\ MassNormalizable(sl, M)
              /\ args' = [M |-> M, C |-> C, K |-> K, method |-> method, sort |-> sort]
              /\ stages' = <<"dispatch", "solve", "sort">>
              /\ sol' = sl
              /\ perm' = I
              /\ out' = EigMCKResult(
                          DiagBetaModes(C, EigResult(K, Some(M), FALSE, FALSE, "None",
                                                     sl, Identity(Len(sl.e)))),
                          sort, I)
       ELSE IF Lower(method) = "full_matrix"
       THEN IF PolyeigCheck(<<K, C, M>>) # NoError
            THEN \E sort \in BOOLEAN :
                   /\ args' = [M |-> M, C |-> C, K |-> K, method |-> method, sort |-> sort]
                   /\ stages' = <<"dispatch", "check">>
                   /\ sol' = NoSol
                   /\ perm' = NoPerm
                   /\ out' = Raised("Exception", PolyeigCheck(<<K, C, M>>))
            ELSE \E sl \in LinalgEig(CompanionC(<<K, C, M>>), CompanionD(<<K, C, M>>)) :
                 \E sort \in BOOLEAN :
                 \E I \in IF sort
                          THEN ArgSorts(FullMatrixModes(PolyeigResult(<<K, C, M>>, FALSE,
                                          sl, Identity(Len(sl.e)))).freq_d)
                          ELSE {Identity(Len(sl.e))} :
                   /\ args' = [M |-> M, C |-> C, K |-> K, method |-> method, sort |-> sort]
                   /\ stages' = <<"dispatch", "check", "assemble", "solve", "scale", "sort">>
                   /\ sol' = sl
                   /\ perm' = I
                   /\ out' = EigMCKResult(
                               FullMatrixModes(PolyeigResult(<<K, C, M>>, FALSE, sl,
                                                             Identity(Len(sl.e)))),
                               sort, I)
       ELSE \E sort \in BOOLEAN :
              /\ args' = [M |-> M, C |-> C, K |-> K, method |-> method, sort |-> sort]
              /\ stages' = <<"dispatch">>
              /\ sol' = NoSol
              /\ perm' = NoPerm
              /\ out' = [status |-> "NotImplementedError"]
  /\ mem' = MemAfter("eigMCK", args', out'.status = "ok")
  /\ ncall' = 1

\* eva.py 222: the tuple eigMCK returns
ReturnTuple(r) == <<r.freq_d, r.zeta, r.Q, r.freq_0>>
\* eva.py 238: the names the self-check unpacks that tuple into
MainTargets == <<"freq_d", "zeta", "Q", "freq", "xi">>
\* eva.py 227-236: the system of the self-check is a damped one of two
\* degrees of freedom with diagonal M, C and K, all entries positive; the
\* model runs the block on its systems of that kind.
MainSystems ==
  {in \in Mech2 :
     /\ in[1] \in {Mat2(1, 0, 0, 1), Mat2(1, 0, 0, 2)}
     /\ in[2][1][1] # Zero /\ in[2][2][2] # Zero
     /\ in[3][1][2] = Zero /\ in[3][2][1] = Zero}

\* eva.py 225-255: the block run when the module is run as a script.  The
\* call eigMCK(M, C, K) takes the defaults method='full_matrix', sort=True;
\* the assignment of line 238 unpacks what it returned.
Main ==
  /\ fn = "idle"
  /\ fn' = "__main__"
  /\ \E in \in MainSystems :
       LET M == in[1]
           C == in[2]
           K == in[3]
       IN
       \E sl \in LinalgEig(CompanionC(<<K, C, M>>), CompanionD(<<K, C, M>>)) :
       \E I \in ArgSorts(FullMatrixModes(PolyeigResult(<<K, C, M>>, FALSE, sl,
                                                        Identity(Len(sl.e)))).freq_d) :
         /\ args' = [M |-> M, C |-> C, K |-> K, method |-> "full_matrix", sort |-> TRUE]
         /\ sol' = sl
         /\ perm' = I
         /\ IF Len(ReturnTuple(EigMCKResult(
                      FullMatrixModes(PolyeigResult(<<K, C, M>>, FALSE, sl,
                                                    Identity(Len(sl.e)))),
                      TRUE, I))) = Len(MainTargets)
            THEN /\ stages' = <<"eigMCK", "unpack", "print", "polyeig", "assert">>
                 /\ out' = [status |-> "ok"]
            ELSE /\ stages' = <<"eigMCK", "unpack">>
                 /\ out' = Raised("ValueError",
                                  "not enough values to unpack (expected 5, got 4)")
  /\ mem' = MemAfter("eigMCK", args', TRUE)
  /\ ncall' = 1

\* The caller is done with the result.
Return ==
  /\ fn # "idle"
  /\ fn' = "idle"
  /\ args' = NoArgs
  /\ stages' = <<>>
  /\ sol' = NoSol
  /\ perm' = NoPerm
  /\ out' = NoOut
  /\ mem' = NoMem
  /\ ncall' = 0

NextPolyeig == Polyeig \/ Return
SpecPolyeig == Init /\ [][NextPolyeig]_vars

NextEig == Eig \/ Return
SpecEig == Init /\ [][NextEig]_vars

NextEigA == EigA \/ Return
SpecEigA == Init /\ [][NextEigA]_vars

NextEigMCK == EigMCK \/ Return
SpecEigMCK == Init /\ [][NextEigMCK]_vars

\* eigA, and eigA called a second time on the same arguments.
NextEigATwice == EigA \/ EigAAgain \/ Return
SpecEigATwice == Init /\ [][NextEigATwice]_vars

\* The two analyses that return modes: eigA and eigMCK.
NextModal == EigA \/ EigMCK \/ Return
SpecModal == Init /\ [][NextModal]_vars

NextMain == Main \/ Return
SpecMain == Init /\ [][NextMain]_vars

Next == Polyeig \/ Eig \/ EigA \/ EigAAgain \/ EigMCK \/ Main \/ Return
Spec == Init /\ [][Next]_vars


\* ------------------------------------------------------------------ claims
\* (A0 + e A1 + ... + e^p Ap) x
RECURSIVE PolyApply(_, _, _)
PolyApply(A, e, x) ==
  IF Len(A) = 0 THEN ZeroVec(Len(x))
  ELSE LET rest == PolyApply(Tail(A), e, x)
           ax == MatVec(Head(A), x)
       IN  Vec([i \in 1..Len(x) |-> CAdd(ax[i], CMul(e, rest[i]))])

\* x^T M x, entry by entry
QuadForm(M, x) ==
  CSum([i \in 1..Len(x) |-> CSum([k \in 1..Len(x) |-> CMul(CMul(x[i], M[i][k]), x[k])])])

IsSymmetric(M) == \A i, k \in 1..NRows(M) : M[i][k] = M[k][i]
IsRealMat(M) == \A i, k \in 1..NRows(M) : Im(M[i][k]) = 0
IsDiagonal(M) == \A i, k \in 1..NRows(M) : i # k => M[i][k] = Zero
IsZeroMat(M) == \A i, k \in 1..NRows(M) : M[i][k] = Zero
\* Real symmetric positive-definite, for the 1 x 1 and 2 x 2 matrices of the
\* model: positive leading minors.
IsSymPosDef(M) ==
  /\ IsRealMat(M) /\ IsSymmetric(M)
  /\ NRows(M) \in {1, 2}
  /\ Re(M[1][1]) > 0
  /\ Re(Det(M)) > 0

ROne == RInt(1)
\* No entry of s is greater than the entry after it.
NoDecrease(s) == \A i \in 1..(Len(s) - 1) : ~RLt(s[i + 1], s[i])

PolyeigReturned == fn = "polyeig" /\ out.status = "ok"
EigReturned == fn = "eig" /\ out.status = "ok"
EigAReturned == fn = "eigA" /\ out.status = "ok"
EigMCKReturned == fn = "eigMCK" /\ out.status = "ok"
FullMatrixReturned == EigMCKReturned /\ Lower(args.method) = "full_matrix"

\* C1: every pair (e[j], X[:,j]) that polyeig returns with a finite eigenvalue
\* solves the polynomial problem: the column is a number (its scale is not
\* zero) and (A0 + e[j] A1 + ... + e[j]^p Ap) X[:,j] = 0.
C1_PolyeigResidualZero ==
  PolyeigReturned =>
    \A j \in 1..Len(out.e) :
       IsFinite(out.e[j]) =>
         /\ out.X[j].d2 # 0
         /\ PolyApply(args.A, out.e[j].v, out.X[j].num) = ZeroVec(NRows(args.A[1]))

\* A quadratic problem on coupled 2 x 2 matrices with an oscillating mode.
C1_Witness ==
  /\ PolyeigReturned
  /\ Len(args.A) = 3
  /\ NRows(args.A[1]) = 2
  /\ args.A[1][1][2] # Zero
  /\ \E j \in 1..Len(out.e) : IsFinite(out.e[j]) /\ Im(out.e[j].v) > 0

\* C2, as stated: with sort=True the natural frequencies freq_0 that eigMCK
\* returns never decrease from one mode to the next.
C2_Freq0NonDecreasing ==
  (EigMCKReturned /\ args.sort) => NoDecrease(out.freq_0)

\* C2, amended: with sort=True the damped frequencies freq_d that eigMCK
\* returns are in numpy's sorted order: non-decreasing, not-a-number last.
C2_FreqDSorted ==
  (EigMCKReturned /\ args.sort) =>
    \A i \in 1..(Len(out.freq_d) - 1) : RSortLeq(out.freq_d[i], out.freq_d[i + 1])

\* A sorted result whose solver order was not sorted, and whose natural
\* frequencies decrease although the damped ones do not.
C2_Witness ==
  /\ EigMCKReturned /\ args.sort
  /\ Len(out.freq_d) = 2
  /\ RLt(out.freq_d[1], out.freq_d[2])
  /\ RLt(out.freq_0[2], out.freq_0[1])
  /\ \E j, k \in 1..Len(sol.e) : j < k /\ Im(sol.e[j].v) > Im(sol.e[k].v) /\ Im(sol.e[k].v) > 0

EigANqOnly ==
  /\ fn = "eigA"
  /\ NRows(args.A) = NCols(args.A)
  /\ ~IsNone(args.nq)
  /\ IsNone(args.nq1)

\* C3, as stated: eigA given nq and no nq1 raises whenever n # 2 nq.
C3_NqOnlyRaisesUnlessTwice ==
  (EigANqOnly /\ NRows(args.A) # 2 * Val(args.nq)) => out.status = "Exception"

\* C3, amended: eigA given nq and no nq1 takes nq1 = n - 2 nq; it raises the
\* dimension error, before any solve, exactly when n < 2 nq, and otherwise
\* returns modes whose reduced eigenvectors keep n - nq rows (for nq >= 0).
C3_NqOnlyRaisesIffTooLarge ==
  EigANqOnly =>
    /\ (out.status = "Exception") <=> (NRows(args.A) < 2 * Val(args.nq))
    /\ out.status = "Exception" => (stages = <<"check">> /\ sol = NoSol)
    /\ out.status # "Exception" =>
         /\ out.status = "ok"
         /\ (~args.fullEV /\ Val(args.nq) >= 0) =>
              \A j \in 1..Len(out.Q) : Len(out.Q[j].num) = NRows(args.A) - Val(args.nq)

\* The 5 x 5 state matrix with nq = 2: a result, with 3-row eigenvectors.
C3_Witness ==
  /\ EigANqOnly
  /\ NRows(args.A) = 5
  /\ Val(args.nq) = 2
  /\ out.status = "ok"
  /\ ~args.fullEV
  /\ Len(out.Q) = 2
  /\ Len(out.Q[1].num) = 3

\* C4: eigA given both nq and nq1 raises the dimension error whenever
\* n # 2 nq + nq1 or nq1 < 0.
C4_InconsistentPartitionRaises ==
  (/\ fn = "eigA"
   /\ NRows(args.A) = NCols(args.A)
   /\ ~IsNone(args.nq)
   /\ ~IsNone(args.nq1)
   /\ (NRows(args.A) # 2 * Val(args.nq) + Val(args.nq1) \/ Val(args.nq1) < 0))
    => out.status = "Exception"

\* C5: when the eigenvalues of the state matrix are k conjugate pairs and
\* n - 2k real ones, eigA returns exactly k modes, each from an eigenvalue of
\* strictly positive imaginary part, and none from the others.
C5_OneModePerConjugatePair ==
  EigAReturned =>
    LET pos == {j \in 1..Len(sol.e) : Im(sol.e[j].v) > 0}
        neg == {j \in 1..Len(sol.e) : Im(sol.e[j].v) < 0}
        real == {j \in 1..Len(sol.e) : Im(sol.e[j].v) = 0}
        Paired == \A j \in pos \cup neg :
                    Cardinality({i \in pos \cup neg : sol.e[i].v = sol.e[j].v})
                      = Cardinality({i \in pos \cup neg :
                                       sol.e[i].v = <<Re(sol.e[j].v), -Im(sol.e[j].v)>>})
    IN  Paired =>
          /\ 2 * Len(out.freq_d) + Cardinality(real) = NRows(args.A)
          /\ Len(out.freq_d) = Cardinality(pos)
          /\ Len(out.zeta) = Len(out.freq_d)
          /\ Len(out.freq_0) = Len(out.freq_d)
          /\ Len(out.Q) = Len(out.freq_d)
          /\ \A i \in 1..Len(out.freq_d) :
               /\ RLt(RZero, out.freq_d[i])
               /\ \E j \in pos : out.freq_d[i] = RDivTwoPi(RInt(Im(sol.e[j].v)))

\* A 5 x 5 state matrix with two conjugate pairs and one real eigenvalue.
C5_Witness ==
  /\ EigAReturned
  /\ NRows(args.A) = 5
  /\ Len(out.freq_d) = 2
  /\ Cardinality({j \in 1..Len(sol.e) : Im(sol.e[j].v) < 0}) = 2
  /\ Cardinality({j \in 1..Len(sol.e) : Im(sol.e[j].v) = 0}) = 1

\* Diagonal M, C, K with positive entries, every degree of freedom underdamped.
DiagUnderdamped(M, C, K) ==
  /\ IsRealMat(M) /\ IsRealMat(C) /\ IsRealMat(K)
  /\ IsDiagonal(M) /\ IsDiagonal(C) /\ IsDiagonal(K)
  /\ \A i \in 1..NRows(M) :
       /\ Re(M[i][i]) > 0 /\ Re(C[i][i]) > 0 /\ Re(K[i][i]) > 0
       /\ Re(C[i][i]) * Re(C[i][i]) < 4 * Re(M[i][i]) * Re(K[i][i])

C7_MassNormalized ==
  (/\ EigReturned
   /\ ~IsNone(args.M)
   /\ args.normQ = "None"
   /\ IsRealMat(args.K) /\ IsSymmetric(args.K)
   /\ IF IsNone(args.M) THEN FALSE ELSE IsSymPosDef(Val(args.M)))
    => /\ Len(out.Q) = NRows(args.K)
       /\ \A j \in 1..Len(out.Q) :
            /\ out.Q[j].d2 > 0
            /\ out.Q[j].dc = One
            /\ QuadForm(Val(args.M), out.Q[j].num) = CReal(out.Q[j].d2)

\* Coupled K, M = diag(1, 2), and a sort that swaps the solver's two columns.
C7_Witness ==
  /\ EigReturned
  /\ args.sort
  /\ args.normQ = "None"
  /\ args.M = Some(Mat2(1, 0, 0, 2))
  /\ args.K[1][2] # Zero
  /\ IsSymmetric(args.K)
  /\ Re(sol.e[1].v) > Re(sol.e[2].v)
  /\ out.Q[1].num = sol.X[2]
  /\ out.Q[1].d2 > 1

\* C8, as stated: with C = 0 every mode the full_matrix method returns has
\* damping ratio 0.
C8_UndampedZetaZero ==
  (FullMatrixReturned /\ IsZeroMat(args.C)) =>
    \A i \in 1..Len(out.zeta) : IsZero(out.zeta[i])

\* C8, amended: with C = 0, real symmetric K and real symmetric
\* positive-definite M, every mode the full_matrix method returns has damping
\* ratio 0.
C8_UndampedSymmetricZetaZero ==
  (/\ FullMatrixReturned
   /\ IsZeroMat(args.C)
   /\ IsRealMat(args.K) /\ IsSymmetric(args.K)
   /\ IsSymPosDef(args.M))
    => \A i \in 1..Len(out.zeta) : IsZero(out.zeta[i])

\* Coupled symmetric K, M = diag(1, 2), C = 0: two modes returned.
C8_Witness ==
  /\ FullMatrixReturned
  /\ IsZeroMat(args.C)
  /\ args.M = Mat2(1, 0, 0, 2)
  /\ IsSymmetric(args.K)
  /\ args.K[1][2] # Zero
  /\ Len(out.zeta) = 2
  /\ IsZero(out.zeta[1]) /\ IsZero(out.zeta[2])

\* imag(e) / (2 pi) > 1e-08 for an eigenvalue e of integer parts:
\* imag(e) * 1e8 > 2 pi, and 6 < 2 pi < 7.
AboveThreshold(e) == IsFinite(e) /\ Im(e.v) * ThresholdInv > 6

\* C9: the full_matrix method returns one mode for each polynomial eigenvalue
\* whose damped frequency imag(e) / (2 pi) is above 1e-08 and none for any other
\* (negative or zero imaginary part, zero, infinite), and the damping ratio of
\* every returned mode is a number.
C9_RetainedIffAboveThreshold ==
  FullMatrixReturned =>
    LET kept == {j \in 1..Len(sol.e) : AboveThreshold(sol.e[j])}
    IN  /\ Len(out.freq_d) = Cardinality(kept)
        /\ Len(out.zeta) = Cardinality(kept)
        /\ Len(out.Q) = Cardinality(kept)
        /\ \A j \in kept :
             Cardinality({i \in 1..Len(out.freq_d) :
                            out.freq_d[i] = RDivTwoPi(RInt(Im(sol.e[j].v)))})
               = Cardinality({k \in kept : Im(sol.e[k].v) = Im(sol.e[j].v)})
        /\ \A i \in 1..Len(out.freq_d) :
             /\ IsNum(out.zeta[i])
             /\ \E j \in kept :
                  /\ out.freq_d[i] = RDivTwoPi(RInt(Im(sol.e[j].v)))
                  /\ out.zeta[i] = RDiv(RInt(-Re(sol.e[j].v)), RSqrtInt(Abs2(sol.e[j].v)))

\* A singular mass matrix and an overdamped degree of freedom: an infinite, a
\* real and a conjugate pair of eigenvalues, and one mode returned.
C9_Witness ==
  /\ FullMatrixReturned
  /\ Len(out.freq_d) = 1
  /\ \E j \in 1..Len(sol.e) : ~IsFinite(sol.e[j])
  /\ \E j \in 1..Len(sol.e) : IsFinite(sol.e[j]) /\ Im(sol.e[j].v) = 0
  /\ \E j \in 1..Len(sol.e) : IsFinite(sol.e[j]) /\ Im(sol.e[j].v) < 0

PolyeigBadArgs(A) ==
  \/ Len(A) = 0
  \/ \E i \in 1..Len(A) : NRows(A[i]) # NCols(A[i])
  \/ \E i \in 1..Len(A) : Shape(A[i]) # Shape(A[1])

\* C10: polyeig given no matrix, a matrix that is not square, or a matrix of
\* another shape than the first raises an exception with nothing but its
\* message, and neither assembles nor solves anything before.
C10_PolyeigRejectsBadArgs ==
  (fn = "polyeig" /\ PolyeigBadArgs(args.A)) =>
    /\ out.status = "Exception"
    /\ DOMAIN out = {"status", "msg"}
    /\ stages = <<"check">>
    /\ sol = NoSol

\* Two square matrices of different shapes.
C10_Witness ==
  /\ fn = "polyeig"
  /\ Len(args.A) = 2
  /\ NRows(args.A[1]) = NCols(args.A[1])
  /\ NRows(args.A[2]) = NCols(args.A[2])
  /\ Shape(args.A[2]) # Shape(args.A[1])
  /\ out = Raised("Exception", "All matrices must have the same shapes")

\* The method names eigMCK knows, in any case of the letters (those of the model).
KnownMethod(m) == m \in {"diag_beta", "Diag_Beta", "full_matrix", "FULL_MATRIX"}

\* C11: eigMCK raises NotImplementedError exactly for the method names that are
\* neither diag_beta nor full_matrix (in any case of the letters), and then it
\* has run no eigen-solve and returns nothing but the error.
C11_UnknownMethodNotImplemented ==
  fn = "eigMCK" =>
    /\ (out.status = "NotImplementedError") <=> ~KnownMethod(args.method)
    /\ ~KnownMethod(args.method) =>
         /\ out = [status |-> "NotImplementedError"]
         /\ stages = <<"dispatch">>
         /\ sol = NoSol

\* An unknown method name on a system both methods could analyse.
C11_Witness ==
  /\ fn = "eigMCK"
  /\ args.method = "modal"
  /\ NRows(args.M) = 2
  /\ args.M = Mat2(1, 0, 0, 1)
  /\ out.status = "NotImplementedError"

DiagBetaReturned == EigMCKReturned /\ Lower(args.method) = "diag_beta"
\* Two results of the real arithmetic are the same: both not-a-number, or equal.
RSame(a, b) == (IsNaN(a) /\ IsNaN(b)) \/ REq(a, b)

\* The diagonal of Q^T C Q for columns Q: entry j is q_j^T C q_j of mode j.
ModalDamping(Q, C) ==
  Vec([j \in 1..Len(Q) |->
         IF Q[j].d2 > 0 THEN RRat(Re(QuadForm(C, Q[j].num)), Q[j].d2) ELSE RNaN])

\* The damping ratio of a mode with the damping term beta and the eigenvalue
\* lam of (K, M): beta / (2 sqrt(lam)), not-a-number where the logarithmic
\* decrement beta / (2 f), f = sqrt(lam) / (2 pi), is above 2 pi.
ZetaOfTerm(beta, lam) ==
  LET f == RDivTwoPi(RSqrt(lam))
      xi == RDiv(beta, RMul(RInt(2), f))
  IN  IF RLt(RTwoPi, xi) THEN RNaN ELSE RDiv(xi, RTwoPi)

\* C12, as stated: the damping ratio that the diag_beta method returns for
\* mode j is the one derived from the j-th diagonal entry of Q^T C Q, Q the
\* mass-normalized eigenvectors of (K, M).
C12_ZetaFromModalDamping ==
  DiagBetaReturned =>
    \A j \in 1..Len(out.zeta) :
       RSame(out.zeta[j],
             ZetaOfTerm(ModalDamping(out.Q, args.C)[j], LambdaDiag(out.Q, args.K)[j]))

\* What the diag_beta method works with, mode by mode in the solver's order:
\* the mass-normalized vector Q, the damping term the code takes for the mode
\* (entry j of the diagonal it computes at eva.py 194), the natural frequency
\* in radians (w = sqrt(lam)) and in cycles (f = w / (2 pi)).
DiagBetaTerms ==
  LET Q0 == MassNormalize(sol.X, args.M)
      beta == BetaDiag(Q0, args.C)
      lam == LambdaDiag(Q0, args.K)
  IN  Vec([j \in 1..Len(Q0) |->
             [Q |-> Q0[j], term |-> beta[j],
              w |-> RSqrt(lam[j]), f |-> RDivTwoPi(RSqrt(lam[j]))]])

\* The solver's modes that the returned mode i may be: mode i itself without
\* the sort, any mode with the returned vector with it.
ModesOf(i) ==
  {j \in 1..Len(sol.e) : out.Q[i] = DiagBetaTerms[j].Q /\ (~args.sort => j = i)}

\* C13, as stated: every mode of the diag_beta method that is not marked
\* not-a-number has zeta = term / (2 natural_frequency) and
\* freq_d = natural_frequency sqrt(1 - zeta^2), for one natural frequency of
\* the mode, be it the one in cycles or the one in radians per unit of time.
C13_ZetaAndFreqDFromOneFrequency ==
  DiagBetaReturned =>
    \A i \in 1..Len(out.zeta) :
       IsNaN(out.zeta[i]) \/
       \E j \in ModesOf(i) :
       \E nf \in {DiagBetaTerms[j].f, DiagBetaTerms[j].w} :
          /\ REq(out.zeta[i], RDiv(DiagBetaTerms[j].term, RMul(RInt(2), nf)))
          /\ RSame(out.freq_d[i], RMul(nf, RSqrt(ROneMinusSq(out.zeta[i]))))

\* C13, amended: every mode of the diag_beta method that is not marked
\* not-a-number has zeta = term / (2 w), w = sqrt(lam) the natural frequency
\* in radians per unit of time, and freq_d = f sqrt(1 - zeta^2), f = w / (2 pi)
\* the natural frequency in cycles per unit of time.
C13_ZetaFromRadiansFreqDFromCycles ==
  DiagBetaReturned =>
    \A i \in 1..Len(out.zeta) :
       IsNaN(out.zeta[i]) \/
       \E j \in ModesOf(i) :
          /\ REq(out.zeta[i],
                 RDiv(DiagBetaTerms[j].term, RMul(RInt(2), DiagBetaTerms[j].w)))
          /\ RSame(out.freq_d[i],
                   RMul(DiagBetaTerms[j].f, RSqrt(ROneMinusSq(out.zeta[i]))))

\* A coupled two-mode system whose first returned mode is damped below critical.
C13_Witness ==
  /\ DiagBetaReturned
  /\ Len(out.zeta) = 2
  /\ args.K[1][2] # Zero
  /\ IsNum(out.zeta[1]) /\ RLt(RZero, out.zeta[1]) /\ RLt(out.zeta[1], ROne)
  /\ IsNum(out.freq_d[1]) /\ RLt(out.freq_d[1], out.freq_0[1])

\* The logarithmic decrement of the solver's mode j before any marking:
\* term / (2 f), f the natural frequency in cycles.
LogDecrement(j) == RDiv(DiagBetaTerms[j].term, RMul(RInt(2), DiagBetaTerms[j].f))
\* The diag_beta method returned one entry per degree of freedom in each output.
AllModesReturned ==
  /\ Len(out.zeta) = NRows(args.M)
  /\ Len(out.freq_d) = NRows(args.M)
  /\ Len(out.Q) = NRows(args.M)

\* C14, as stated: the diag_beta method returns all n modes, and the damping
\* ratio of a mode is not-a-number exactly when its logarithmic decrement is
\* above 2 pi; every other mode has its decrement divided by 2 pi.
C14_NaNIffDecrementAboveTwoPi ==
  DiagBetaReturned =>
    /\ AllModesReturned
    /\ \A i \in 1..Len(out.zeta) :
         \E j \in ModesOf(i) :
            /\ IsNaN(out.zeta[i]) <=> RLt(RTwoPi, LogDecrement(j))
            /\ ~IsNaN(out.zeta[i]) => REq(out.zeta[i], RDiv(LogDecrement(j), RTwoPi))

\* C14, amended: the diag_beta method returns all n modes, and the damping
\* ratio of a mode is not-a-number exactly when its logarithmic decrement is
\* above 2 pi or is itself not a number (0 / 0 for a mode of zero natural
\* frequency and zero damping term); every other mode has its decrement
\* divided by 2 pi.
C14_NaNIffDecrementAboveTwoPiOrNaN ==
  DiagBetaReturned =>
    /\ AllModesReturned
    /\ \A i \in 1..Len(out.zeta) :
         \E j \in ModesOf(i) :
            /\ IsNaN(out.zeta[i]) <=>
                 (RLt(RTwoPi, LogDecrement(j)) \/ IsNaN(LogDecrement(j)))
            /\ ~IsNaN(out.zeta[i]) => REq(out.zeta[i], RDiv(LogDecrement(j), RTwoPi))

\* Two modes, the first marked for a decrement above 2 pi, the second not.
C14_Witness ==
  /\ DiagBetaReturned
  /\ ~args.sort
  /\ Len(out.zeta) = 2
  /\ IsNaN(out.zeta[1]) /\ RLt(RTwoPi, LogDecrement(1))
  /\ IsNum(out.zeta[2]) /\ RLt(RZero, out.zeta[2])

\* The one-to-one maps from 1..k into the set S.
Injections(k, S) == {f \in [1..k -> S] : \A a, b \in 1..k : f[a] = f[b] => a = b}
\* The solver's eigenvalues that eigA retains: positive imaginary part.
Retained == {j \in 1..Len(sol.e) : IsFinite(sol.e[j]) /\ Im(sol.e[j].v) > 0}
\* The rows of the solver's eigenvector x that eigA returns.
ReturnedRows(x) ==
  IF args.fullEV THEN x
  ELSE LET nq == EigAPartition(NRows(args.A), args.nq, args.nq1).nq
       IN  KeepIdx(x, (1..Len(x)) \ SliceRows(nq, 2 * nq, Len(x)), 1)
\* Index i of the four outputs of eigA derives from the solver's pair j.
EigAModeFrom(i, j) ==
  /\ REq(out.freq_d[i], RDivTwoPi(RInt(Im(sol.e[j].v))))
  /\ REq(out.freq_0[i], RDivTwoPi(RSqrtInt(Abs2(sol.e[j].v))))
  /\ REq(out.zeta[i], RDiv(RInt(-Re(sol.e[j].v)), RSqrtInt(Abs2(sol.e[j].v))))
  /\ out.Q[i].num = ReturnedRows(sol.X[j])

\* C15: the natural frequencies freq_0 that eigA returns never decrease, and
\* the four outputs are permuted alike: one one-to-one map takes every index i
\* to a retained eigenvalue of the solver from which freq_d[i], zeta[i],
\* freq_0[i] and the column Q[:,i] all derive.
C15_EigASortedTogether ==
  EigAReturned =>
    /\ NoDecrease(out.freq_0)
    /\ Len(out.freq_d) = Len(out.freq_0)
    /\ Len(out.zeta) = Len(out.freq_0)
    /\ Len(out.Q) = Len(out.freq_0)
    /\ \E f \in Injections(Len(out.freq_0), Retained) :
         \A i \in 1..Len(out.freq_0) : EigAModeFrom(i, f[i])

\* Two modes of different damping that the sort has exchanged: the first
\* returned mode is the solver's later one.
C15_Witness ==
  /\ EigAReturned
  /\ Len(out.freq_0) = 2
  /\ RLt(out.freq_0[1], out.freq_0[2])
  /\ ~REq(out.zeta[1], out.zeta[2])
  /\ \E j, k \in Retained : j < k /\ EigAModeFrom(1, k) /\ EigAModeFrom(2, j)

\* The solver's pairs that eigMCK makes modes of: all of them for diag_beta,
\* those with a positive imaginary part for full_matrix.
MCKKept ==
  IF Lower(args.method) = "diag_beta" THEN 1..Len(sol.e)
  ELSE {j \in 1..Len(sol.e) : IsFinite(sol.e[j]) /\ Im(sol.e[j].v) > 0}
\* Index i of freq_d, zeta and Q of eigMCK derives from the solver's pair j.
MCKModeFrom(i, j) ==
  IF Lower(args.method) = "diag_beta"
  THEN /\ out.Q[i] = DiagBetaTerms[j].Q
       /\ RSame(out.zeta[i],
                IF RLt(RTwoPi, LogDecrement(j)) THEN RNaN
                ELSE RDiv(LogDecrement(j), RTwoPi))
       /\ RSame(out.freq_d[i],
                RMul(DiagBetaTerms[j].f, RSqrt(ROneMinusSq(out.zeta[i]))))
  ELSE /\ out.Q[i].num = SubSeq(sol.X[j], 1, NRows(args.M))
       /\ REq(out.zeta[i], RDiv(RInt(-Re(sol.e[j].v)), RSqrtInt(Abs2(sol.e[j].v))))
       /\ REq(out.freq_d[i], RDivTwoPi(RInt(Im(sol.e[j].v))))

\* C16: with sort=True the damped frequencies that eigMCK returns are in
\* sorted order (none less than the one before it, not-a-number last), and
\* freq_d, zeta and the columns of Q are permuted alike: one one-to-one map
\* takes every index i to the solver's pair the three derive from.  With
\* sort=False that map keeps the solver's order.
C16_EigMCKSortedTogether ==
  EigMCKReturned =>
    /\ args.sort =>
         \A i \in 1..(Len(out.freq_d) - 1) : RSortLeq(out.freq_d[i], out.freq_d[i + 1])
    /\ Len(out.zeta) = Len(out.freq_d)
    /\ Len(out.Q) = Len(out.freq_d)
    /\ Len(out.freq_d) = Cardinality(MCKKept)
    /\ \E f \in Injections(Len(out.freq_d), MCKKept) :
         /\ \A i \in 1..Len(out.freq_d) : MCKModeFrom(i, f[i])
         /\ ~args.sort => \A a, b \in 1..Len(out.freq_d) : a < b => f[a] < f[b]

\* A sorted full-matrix result of two modes of different damping that the
\* sort has exchanged.
C16_Witness ==
  /\ FullMatrixReturned
  /\ args.sort
  /\ Len(out.freq_d) = 2
  /\ RLt(out.freq_d[1], out.freq_d[2])
  /\ ~REq(out.zeta[1], out.zeta[2])
  /\ \E j, k \in MCKKept : j < k /\ MCKModeFrom(1, k) /\ MCKModeFrom(2, j)

\* C17: every mode that eigA or eigMCK returns with 0 <= zeta < 1 has a
\* natural frequency freq_0 not below its damped frequency freq_d, and every
\* mode that eigA returns has -1 < zeta < 1.
C17_NaturalNotBelowDamped ==
  (EigAReturned \/ EigMCKReturned) =>
    \A i \in 1..Len(out.zeta) :
       /\ (IsNum(out.zeta[i]) /\ ~RLt(out.zeta[i], RZero) /\ RLt(out.zeta[i], ROne))
            => RLeq(out.freq_d[i], out.freq_0[i])
       /\ fn = "eigA" =>
            (IsNum(out.zeta[i]) /\ RLt(RNeg(ROne), out.zeta[i]) /\ RLt(out.zeta[i], ROne))

\* A mode of eigMCK damped below critical: its natural frequency is above its
\* damped frequency.
C17_Witness ==
  /\ EigMCKReturned
  /\ \E i \in 1..Len(out.zeta) :
       /\ IsNum(out.zeta[i]) /\ RLt(RZero, out.zeta[i]) /\ RLt(out.zeta[i], ROne)
       /\ RLt(out.freq_d[i], out.freq_0[i])

\* The eigenvalues (or frequencies) that eig returned, as a sequence.
EigReturnedValues ==
  IF ~IsNone(args.M) /\ args.freq_out THEN out.Lambda ELSE DiagOf(out.Lambda)
\* Entry j of what eig returned is the solver's eigenvalue k, and column j of
\* Q its eigenvector.
EigPairFrom(j, k) ==
  /\ out.Q[j].num = sol.X[k]
  /\ IF IsNone(args.M) THEN EigReturnedValues[j] = sol.e[k]
     ELSE /\ IsFinite(sol.e[k]) /\ Im(sol.e[k].v) = 0
          /\ RSame(EigReturnedValues[j],
                   IF args.freq_out THEN RDivTwoPi(RSqrt(RInt(Re(sol.e[k].v))))
                   ELSE RInt(Re(sol.e[k].v)))

\* C18, as stated: with sort=True what eig returns is in ascending order, and
\* the columns of Q are reordered alike: one one-to-one map takes every index
\* j to the solver's pair that both the j-th eigenvalue and column j come from.
C18_EigSortedAscending ==
  (EigReturned /\ args.sort) =>
    /\ \A j \in 1..(Len(EigReturnedValues) - 1) :
         KeyLeq(EigReturnedValues[j], EigReturnedValues[j + 1])
    /\ \E f \in Injections(Len(EigReturnedValues), 1..Len(sol.e)) :
         \A j \in 1..Len(EigReturnedValues) : EigPairFrom(j, f[j])

\* x is the natural frequency sqrt(lambda) / (2 pi) of an eigenvalue lambda
\* that the solver found.
IsFrequencyOfEigenvalue(x) ==
  \E k \in 1..Len(sol.e) :
     /\ IsFinite(sol.e[k]) /\ Im(sol.e[k].v) = 0
     /\ RSame(x, RDivTwoPi(RSqrt(RInt(Re(sol.e[k].v)))))
\* x is an eigenvalue that the solver found.
IsEigenvalue(x) ==
  \E k \in 1..Len(sol.e) :
     IF IsNone(args.M) THEN x = sol.e[k]
     ELSE IsFinite(sol.e[k]) /\ Im(sol.e[k].v) = 0 /\ RSame(x, RInt(Re(sol.e[k].v)))
\* An entry of the matrix Lambda is exactly zero.
IsZeroEntry(x) == IF IsNone(args.M) THEN x = FinE(Zero) ELSE IsZero(x)

\* C19, as stated: with freq_out=True eig returns a vector, one natural
\* frequency sqrt(lambda_j) / (2 pi) for every eigenvalue; without it eig
\* returns a square matrix with the eigenvalues on the diagonal and zero
\* everywhere else.
C19_FrequenciesWhenRequested ==
  EigReturned =>
    IF args.freq_out
    THEN /\ out.ndim = 1
         /\ Len(out.Lambda) = NRows(args.K)
         /\ \A j \in 1..Len(out.Lambda) : IsFrequencyOfEigenvalue(out.Lambda[j])
    ELSE /\ out.ndim = 2
         /\ Len(out.Lambda) = NRows(args.K)
         /\ \A i \in 1..Len(out.Lambda) :
              /\ Len(out.Lambda[i]) = NRows(args.K)
              /\ IsEigenvalue(out.Lambda[i][i])
              /\ \A j \in 1..Len(out.Lambda) : i # j => IsZeroEntry(out.Lambda[i][j])

\* Eigenvalue j and column j of what polyeig returned are the solver's pair k:
\* the column is the first n rows of the solver's vector.
PolyeigPairFrom(j, k) ==
  /\ out.e[j] = sol.e[k]
  /\ out.X[j].num = SubSeq(sol.X[k], 1, NRows(args.A[1]))

\* C20: a successful polyeig(A0..Ap) on n x n matrices returns n p
\* eigenvalues and n p columns of n rows, and column j goes with eigenvalue j:
\* one one-to-one map takes every index j to the solver's pair both come
\* from, the identity without sort.
C20_PolyeigShapeAndPairing ==
  PolyeigReturned =>
    /\ Len(out.e) = NRows(args.A[1]) * (Len(args.A) - 1)
    /\ Len(out.X) = NRows(args.A[1]) * (Len(args.A) - 1)
    /\ \A j \in 1..Len(out.X) : Len(out.X[j].num) = NRows(args.A[1])
    /\ \E f \in Injections(Len(out.e), 1..Len(sol.e)) :
         /\ \A j \in 1..Len(out.e) : PolyeigPairFrom(j, f[j])
         /\ ~args.sort => \A j \in 1..Len(out.e) : f[j] = j

\* A sorted quadratic problem on 2 x 2 matrices: four pairs, the first
\* returned one not the solver's first.
C20_Witness ==
  /\ PolyeigReturned
  /\ args.sort
  /\ Len(args.A) = 3
  /\ NRows(args.A[1]) = 2
  /\ Len(out.e) = 4
  /\ out.e[1] # sol.e[1]
  /\ out.e[1] # out.e[2]
  /\ \E k \in 2..4 : PolyeigPairFrom(1, k)

\* The partition eigA goes on with, and whether it is one: no negative count.
UsedPartition == EigAPartition(NRows(args.A), args.nq, args.nq1)
IsPartition == UsedPartition.nq >= 0 /\ UsedPartition.nq1 >= 0
\* Rows 0..nq-1 and 2 nq..n-1 of a full eigenvector x, in their order.
PositionRows(x) ==
  SubSeq(x, 1, UsedPartition.nq) \o SubSeq(x, 2 * UsedPartition.nq + 1, Len(x))

\* C21: for a partition (nq, nq1) of the n states, every column that eigA
\* returns with fullEV=False has nq + nq1 rows, the rows 0..nq-1 and
\* 2 nq..n-1 of a full eigenvector of a retained eigenvalue in their order;
\* with fullEV=True it is the full eigenvector, n rows.
C21_VelocityRowsDropped ==
  (EigAReturned /\ IsPartition) =>
    \A i \in 1..Len(out.Q) :
       /\ Len(out.Q[i].num) =
            IF args.fullEV THEN NRows(args.A) ELSE UsedPartition.nq + UsedPartition.nq1
       /\ \E j \in Retained :
            /\ REq(out.freq_d[i], RDivTwoPi(RInt(Im(sol.e[j].v))))
            /\ out.Q[i].num = IF args.fullEV THEN sol.X[j] ELSE PositionRows(sol.X[j])

\* Two positions, two velocities and one first-order state: a column of three
\* rows is returned, its velocity rows were not zero.
C21_Witness ==
  /\ EigAReturned
  /\ ~args.fullEV
  /\ UsedPartition = [nq |-> 2, nq1 |-> 1]
  /\ Len(out.Q) = 2
  /\ Len(out.Q[1].num) = 3
  /\ \E j \in Retained :
       /\ out.Q[1].num = PositionRows(sol.X[j])
       /\ sol.X[j][3] # Zero
       /\ sol.X[j][1] # sol.X[j][3]

\* C24: with normQ='byMax' every column that eig returns is a solver's
\* eigenvector divided by one of its entries, the (signed, complex) entry dc
\* of largest magnitude: that entry becomes exactly 1, no entry has a
\* magnitude above 1, and the entries keep their ratios (one common divisor).
\* With normQ=None no such division is made.
C24_ByMaxEntryIsOne ==
  EigReturned =>
    \A j \in 1..Len(out.Q) :
       IF args.normQ = "byMax"
       THEN /\ out.Q[j].d2 = 1
            /\ out.Q[j].dc # Zero
            /\ \E i \in 1..Len(out.Q[j].num) : out.Q[j].num[i] = out.Q[j].dc
            /\ \A i \in 1..Len(out.Q[j].num) :
                 Abs2(out.Q[j].num[i]) <= Abs2(out.Q[j].dc)
            /\ \E k \in 1..Len(sol.X) : out.Q[j].num = sol.X[k]
       ELSE out.Q[j].dc = One

\* A column whose entry of largest magnitude is negative, and not its only
\* entry: it is divided by that negative number.
C24_Witness ==
  /\ EigReturned
  /\ args.normQ = "byMax"
  /\ Len(out.Q) = 2
  /\ Re(out.Q[1].dc) < 0
  /\ \E i \in 1..2 : out.Q[1].num[i] # out.Q[1].dc /\ out.Q[1].num[i] # Zero

\* The arguments of polyeig are a non-empty sequence of square matrices of
\* one shape.
PolyeigGoodArgs ==
  /\ Len(args.A) > 0
  /\ \A i \in 1..Len(args.A) :
       /\ NRows(args.A[i]) = NCols(args.A[i])
       /\ Shape(args.A[i]) = Shape(args.A[1])

\* C25, as stated: polyeig returns a result for every non-empty sequence of
\* square matrices of one shape, and for a single matrix the result holds no
\* eigenvalue.
C25_PolyeigReturnsForGoodArgs ==
  (fn = "polyeig" /\ PolyeigGoodArgs) =>
    /\ out.status = "ok"
    /\ Len(args.A) = 1 => Len(out.e) = 0

\* eigA went past its dimension check, to the eigen-solve.
EigASolved == fn = "eigA" /\ Len(stages) >= 2 /\ stages[2] = "solve"

\* C26, as stated: whenever eigA goes past its dimension check, the partition
\* it goes on with has nq >= 0, nq1 >= 0 and n = 2 nq + nq1.
C26_PartitionNonNegative ==
  EigASolved =>
    /\ UsedPartition.nq >= 0
    /\ UsedPartition.nq1 >= 0
    /\ NRows(args.A) = 2 * UsedPartition.nq + UsedPartition.nq1

C27_MainRunsToAssert ==
  fn = "__main__" =>
    /\ out.status = "ok"
    /\ stages[Len(stages)] = "assert"
====
